---- MODULE Spec2Model ----
(***************************************************************************)
(* Model of Balance_sheet_provision_learn.py: the session state of the     *)
(* interactive P&L / balance sheet explorer and its one state-changing     *)
(* operation, apply_changes.                                               *)
(*                                                                         *)
(* Money is fixed point: one model unit is 0.0001 of a currency unit, so   *)
(* 0.005 is 50 units and 0.01 is 100 units. tax_rate is held in percent    *)
(* (0.20 is 20). Every P&L amount the model feeds in is a multiple of      *)
(* 0.001 and every rate a multiple of 10%, so max(0, ebt) * tax_rate is    *)
(* exact in model units (TypeOK states it); the arithmetic is the real     *)
(* arithmetic of the formulas, without binary floating-point rounding.     *)
(***************************************************************************)
EXTENDS Integers, Sequences, FiniteSets, TLC

\* state, prev, messages: st.session_state.state / .prev / .messages.
\* log: one entry per apply_changes call made so far, holding the call's
\* arguments and the state dict on entry.
VARIABLES state, prev, messages, log

vars == <<state, prev, messages, log>>

\* Number of apply_changes calls a behaviour may make.
MaxCalls == 2

\* c currency units and t ten-thousandths, in model units.
Units(c, t) == c * 10000 + t

abs(x) == IF x < 0 THEN 0 - x ELSE x

max(a, b) == IF a >= b THEN a ELSE b

\* x * pct / 100 for x >= 0, split so that no intermediate product leaves
\* the 32-bit range.
PctOf(x, pct) == (x \div 100) * pct + ((x % 100) * pct) \div 100

Fields == {"revenue", "cogs", "opex", "interest_expense", "tax_rate",
           "cash", "accounts_receivable", "inventory", "ppe",
           "allowance_for_doubtful_accounts", "accounts_payable", "debt",
           "share_capital", "retained_earnings"}

DEFAULTS ==
    [revenue |-> Units(100000, 0),
     cogs |-> Units(40000, 0),
     opex |-> Units(20000, 0),
     interest_expense |-> Units(2000, 0),
     tax_rate |-> 20,
     cash |-> Units(20000, 0),
     accounts_receivable |-> Units(15000, 0),
     inventory |-> Units(10000, 0),
     ppe |-> Units(30000, 0),
     allowance_for_doubtful_accounts |-> Units(500, 0),
     accounts_payable |-> Units(8000, 0),
     debt |-> Units(10000, 0),
     share_capital |-> Units(30000, 0),
     retained_earnings |-> Units(12000, 0)]

\* f"{x:,.2f}": the amount rounded to two decimals (ties to even), as a
\* number of cents.
fmt(x) ==
    LET a == abs(x)
        q == a \div 100
        r == a % 100
        n == IF r > 50 \/ (r = 50 /\ q % 2 = 1) THEN q + 1 ELSE q
    IN  IF x < 0 THEN 0 - n ELSE n

\* compute_pnl with the symmetric tax policy, tax = ebt * tax_rate: a loss
\* earns a tax credit.
compute_pnl_symmetric(s) ==
    LET revenue == s.revenue
        cogs == s.cogs
        gross_profit == revenue - cogs
        opex == s.opex
        ebit == gross_profit - opex
        interest == s.interest_expense
        ebt == ebit - interest
        tax == IF ebt >= 0 THEN PctOf(ebt, s.tax_rate)
               ELSE 0 - PctOf(0 - ebt, s.tax_rate)
        net_income == ebt - tax
    IN  [Revenue |-> revenue, COGS |-> cogs, GrossProfit |-> gross_profit,
         OperatingExpenses |-> opex, EBIT |-> ebit,
         InterestExpense |-> interest, EBT |-> ebt, Tax |-> tax,
         NetIncome |-> net_income]

\* compute_pnl, lines 39-59; the result dict's keys without their spaces.
compute_pnl(s) ==
    LET revenue == s.revenue
        cogs == s.cogs
        gross_profit == revenue - cogs
        opex == s.opex
        ebit == gross_profit - opex
        interest == s.interest_expense
        ebt == ebit - interest
        tax == PctOf(max(0, ebt), s.tax_rate)
        net_income == ebt - tax
    IN  [Revenue |-> revenue, COGS |-> cogs, GrossProfit |-> gross_profit,
         OperatingExpenses |-> opex, EBIT |-> ebit,
         InterestExpense |-> interest, EBT |-> ebt, Tax |-> tax,
         NetIncome |-> net_income]

compute_balance_sheet(s, include_retained) ==
    LET total_assets == s.cash + s.accounts_receivable
                        + (0 - s.allowance_for_doubtful_accounts)
                        + s.inventory + s.ppe
        total_liabilities == s.accounts_payable + s.debt
        retained == IF include_retained THEN s.retained_earnings ELSE 0
        total_equity == s.share_capital + retained
    IN  [total_assets |-> total_assets,
         total_liabilities |-> total_liabilities,
         total_equity |-> total_equity]

balance_sheet_gap(s) ==
    LET bs == compute_balance_sheet(s, TRUE)
    IN  bs.total_assets - (bs.total_liabilities + bs.total_equity)

push_message(msgs, msg) ==
    LET inserted == <<msg>> \o msgs
    IN  IF Len(inserted) > 12 THEN SubSeq(inserted, 1, 12) ELSE inserted

\* 0.005, the change below which apply_changes treats a delta as no change.
Threshold == Units(0, 50)

\* flow_net_income adding the whole net income of new_vals instead of its
\* change since the previous snapshot.
flow_net_income_total(ss, prv, nv) ==
    LET pnl_before == compute_pnl(prv).NetIncome
        pnl_after == compute_pnl(nv).NetIncome
        delta_net_income == pnl_after - pnl_before
    IN  IF abs(delta_net_income) > Threshold
        THEN [state |-> [ss.state EXCEPT !.retained_earnings =
                                             @ + pnl_after],
              messages |-> push_message(ss.messages,
                               <<"net_income", fmt(delta_net_income)>>)]
        ELSE ss

\* apply_changes, lines 108-116: the net-income delta flows into retained
\* earnings. ss is [state, messages], the dict s being mutated and the
\* message list.
flow_net_income(ss, prv, nv) ==
    LET pnl_before == compute_pnl(prv).NetIncome
        pnl_after == compute_pnl(nv).NetIncome
        delta_net_income == pnl_after - pnl_before
    IN  IF abs(delta_net_income) > Threshold
        THEN [state |-> [ss.state EXCEPT !.retained_earnings =
                                             @ + delta_net_income],
              messages |-> push_message(ss.messages,
                               <<"net_income", fmt(delta_net_income)>>)]
        ELSE ss

\* new_vals.get("allowance_for_doubtful_accounts", prev[...]) - prev[...]
allowance_delta(prv, nv) ==
    (IF "allowance_for_doubtful_accounts" \in DOMAIN nv
     THEN nv.allowance_for_doubtful_accounts
     ELSE prv.allowance_for_doubtful_accounts)
    - prv.allowance_for_doubtful_accounts

\* record_allowance copying interest_expense and tax_rate in the allowance
\* branch too.
record_allowance_copy_all(ss, prv, nv) ==
    LET delta_allowance == allowance_delta(prv, nv)
    IN  [state |-> [ss.state EXCEPT
             !.revenue = nv.revenue,
             !.cogs = nv.cogs,
             !.opex = IF abs(delta_allowance) > Threshold
                      THEN nv.opex + delta_allowance ELSE nv.opex,
             !.interest_expense = nv.interest_expense,
             !.tax_rate = nv.tax_rate,
             !.allowance_for_doubtful_accounts =
                 nv.allowance_for_doubtful_accounts],
         messages |-> IF abs(delta_allowance) > Threshold
                      THEN push_message(ss.messages,
                               <<"allowance", fmt(delta_allowance)>>)
                      ELSE ss.messages]

\* apply_changes, lines 118-135: the allowance change booked as an expense,
\* or the P&L items copied.
record_allowance(ss, prv, nv) ==
    LET delta_allowance == allowance_delta(prv, nv)
    IN  IF abs(delta_allowance) > Threshold
        THEN [state |-> [ss.state EXCEPT
                  !.revenue = nv.revenue,
                  !.cogs = nv.cogs,
                  !.opex = nv.opex + delta_allowance,
                  !.allowance_for_doubtful_accounts =
                      nv.allowance_for_doubtful_accounts],
              messages |-> push_message(ss.messages,
                               <<"allowance", fmt(delta_allowance)>>)]
        ELSE [state |-> [ss.state EXCEPT
                  !.revenue = nv.revenue,
                  !.cogs = nv.cogs,
                  !.opex = nv.opex,
                  !.interest_expense = nv.interest_expense,
                  !.tax_rate = nv.tax_rate,
                  !.allowance_for_doubtful_accounts =
                      nv.allowance_for_doubtful_accounts],
              messages |-> ss.messages]

\* copy_balance_sheet copying the submitted retained_earnings along with
\* the other balance sheet items.
copy_balance_sheet_with_retained(ss, nv) ==
    [state |-> [ss.state EXCEPT
         !.accounts_receivable = nv.accounts_receivable,
         !.inventory = nv.inventory,
         !.ppe = nv.ppe,
         !.accounts_payable = nv.accounts_payable,
         !.debt = nv.debt,
         !.share_capital = nv.share_capital,
         !.retained_earnings = nv.retained_earnings,
         !.cash = nv.cash],
     messages |-> ss.messages]

\* apply_changes, lines 137-146: the balance sheet items and cash copied.
copy_balance_sheet(ss, nv) ==
    [state |-> [ss.state EXCEPT
         !.accounts_receivable = nv.accounts_receivable,
         !.inventory = nv.inventory,
         !.ppe = nv.ppe,
         !.accounts_payable = nv.accounts_payable,
         !.debt = nv.debt,
         !.share_capital = nv.share_capital,
         !.cash = nv.cash],
     messages |-> ss.messages]

\* auto_balance adding the gap to cash instead of taking it off.
auto_balance_wrong_sign(ss, flag) ==
    LET gap == balance_sheet_gap(ss.state)
    IN  IF flag /\ abs(gap) > Threshold
        THEN LET old_cash == ss.state.cash
             IN  [state |-> [ss.state EXCEPT !.cash = old_cash + gap],
                  messages |-> push_message(ss.messages,
                                   <<"auto_balance", fmt(0 - gap)>>)]
        ELSE ss

\* apply_changes, lines 148-154: cash absorbs the gap when asked to.
auto_balance(ss, flag) ==
    LET gap == balance_sheet_gap(ss.state)
    IN  IF flag /\ abs(gap) > Threshold
        THEN LET old_cash == ss.state.cash
             IN  [state |-> [ss.state EXCEPT !.cash = old_cash - gap],
                  messages |-> push_message(ss.messages,
                                   <<"auto_balance", fmt(0 - gap)>>)]
        ELSE ss

\* deepcopy(s), line 157: a dict of numbers copies to an equal dict.
deepcopy(s) == s

\* apply_changes without line 157: the previous snapshot is never renewed.
apply_changes_no_snapshot(session, nv, flag) ==
    LET ss0 == [state |-> session.state, messages |-> session.messages]
        ss1 == flow_net_income(ss0, session.prev, nv)
        ss2 == record_allowance(ss1, session.prev, nv)
        ss3 == copy_balance_sheet(ss2, nv)
        ss4 == auto_balance(ss3, flag)
    IN  [state |-> ss4.state,
         prev |-> session.prev,
         messages |-> ss4.messages]

\* apply_changes taking the snapshot before the auto-balancing of cash.
apply_changes_early_snapshot(session, nv, flag) ==
    LET ss0 == [state |-> session.state, messages |-> session.messages]
        ss1 == flow_net_income(ss0, session.prev, nv)
        ss2 == record_allowance(ss1, session.prev, nv)
        ss3 == copy_balance_sheet(ss2, nv)
        ss4 == auto_balance(ss3, flag)
    IN  [state |-> ss4.state,
         prev |-> deepcopy(ss3.state),
         messages |-> ss4.messages]

\* apply_changes(new_vals, auto_balance_cash) on the session
\* [state, prev, messages]; the result is the session after the call.
apply_changes(session, nv, flag) ==
    LET ss0 == [state |-> session.state, messages |-> session.messages]
        ss1 == flow_net_income(ss0, session.prev, nv)
        ss2 == record_allowance(ss1, session.prev, nv)
        ss3 == copy_balance_sheet(ss2, nv)
        ss4 == auto_balance(ss3, flag)
    IN  [state |-> ss4.state,
         prev |-> deepcopy(ss4.state),
         messages |-> ss4.messages]

\* The values a form field is set to when the user edits it.
Choices ==
    [revenue |-> {Units(100000, 0), Units(100000, 50)},
     cogs |-> {Units(40000, 0), Units(140000, 0)},
     opex |-> {Units(20000, 0), Units(25000, 0)},
     interest_expense |-> {Units(2000, 0), Units(3000, 0)},
     tax_rate |-> {20, 50},
     cash |-> {Units(20000, 0), Units(5500, 0)},
     allowance_for_doubtful_accounts |->
         {Units(500, 0), Units(500, 40), Units(600, 0)},
     ppe |-> {Units(30000, 0), Units(31000, 0)},
     retained_earnings |-> {Units(12000, 0), Units(13000, 0)}]

PnlFormFields == {"revenue", "cogs", "opex", "interest_expense", "tax_rate"}

BsFormFields == {"cash", "allowance_for_doubtful_accounts", "ppe",
                 "retained_earnings"}

\* The dict built at lines 193-208: every widget shows the session state's
\* value (lines 169-187); the user edits at most one input of each form to
\* one of its Choices.
FormValues(s) ==
    UNION {{[s EXCEPT ![f] = v, ![g] = w] :
                v \in Choices[f], w \in Choices[g]} :
           f \in PnlFormFields, g \in BsFormFields}

Init ==
    /\ state = deepcopy(DEFAULTS)
    /\ prev = deepcopy(DEFAULTS)
    /\ messages = <<>>
    /\ log = <<>>

\* Lines 192-209: a form is submitted and apply_changes runs.
Submit ==
    /\ Len(log) < MaxCalls
    /\ \E nv \in FormValues(state), flag \in BOOLEAN :
          LET after == apply_changes(
                  [state |-> state, prev |-> prev, messages |-> messages],
                  nv, flag)
          IN  /\ state' = after.state
              /\ prev' = after.prev
              /\ messages' = after.messages
              /\ log' = Append(log, [new_vals |-> nv,
                                     auto_balance_cash |-> flag,
                                     before |-> state])

Next == Submit

Spec == Init /\ [][Next]_vars

----------------------------------------------------------------------------
\* Reading the log.

calls == Len(log)

\* The latest call's arguments and the state dict it started from.
new_vals == log[calls].new_vals

auto_balance_cash == log[calls].auto_balance_cash

before == log[calls].before

NetIncome(s) == compute_pnl(s).NetIncome

\* Every dict has the fourteen fields, and every product
\* max(0, ebt) * tax_rate the model forms is exact.
TypeOK ==
    /\ DOMAIN state = Fields
    /\ DOMAIN prev = Fields
    /\ Len(messages) <= 12
    /\ \A s \in {state, prev} \cup {log[i].new_vals : i \in 1..calls} :
           ((max(0, compute_pnl(s).EBT) % 100) * s.tax_rate) % 100 = 0

----------------------------------------------------------------------------
\* 0.01, the tolerance of the balance check at lines 235-236.
BalanceTolerance == Units(0, 100)

\* C1: in every reachable session state, total assets equal total
\* liabilities plus total equity to within 0.01.
C1_AlwaysBalances ==
    abs(balance_sheet_gap(state)) < BalanceTolerance

\* C2: right after a call made with auto_balance_cash = True the gap is at
\* most 0.005, so the balance check passes.
C2_AutoBalanceRestores ==
    (calls > 0 /\ auto_balance_cash) =>
        /\ abs(balance_sheet_gap(state)) <= Threshold
        /\ abs(balance_sheet_gap(state)) < BalanceTolerance

\* An auto-balancing call that had a gap to close: cash moved away from the
\* submitted cash.
C2_Witness ==
    /\ calls > 0
    /\ auto_balance_cash
    /\ abs(state.cash - new_vals.cash) > Threshold

\* The latest call submitted the state it started from with only the
\* allowance raised, by more than 0.005.
OnlyAllowanceRaised ==
    /\ calls > 0
    /\ new_vals = [before EXCEPT !.allowance_for_doubtful_accounts =
                       new_vals.allowance_for_doubtful_accounts]
    /\ new_vals.allowance_for_doubtful_accounts
           - before.allowance_for_doubtful_accounts > Threshold

\* C3: a call that raises only the allowance, by more than 0.005, leaves
\* retained earnings lower than before the call.
C3_AllowanceIncreaseLowersRetained ==
    OnlyAllowanceRaised =>
        state.retained_earnings < before.retained_earnings

\* C4: compute_pnl follows the formula chain with the floor tax policy: tax
\* is never negative, a loss pays no tax and keeps Net Income = EBT, and a
\* profit pays EBT * tax_rate.
C4_FloorTaxPolicy ==
    \A s \in {state, prev} \cup {log[i].new_vals : i \in 1..calls} :
        LET p == compute_pnl(s)
        IN  /\ p.GrossProfit = s.revenue - s.cogs
            /\ p.EBIT = p.GrossProfit - s.opex
            /\ p.EBT = p.EBIT - s.interest_expense
            /\ p.NetIncome = p.EBT - p.Tax
            /\ p.Tax >= 0
            /\ p.EBT <= 0 => (p.Tax = 0 /\ p.NetIncome = p.EBT)
            /\ p.EBT > 0 => p.Tax * 10 = (p.EBT \div 10) * s.tax_rate

\* compute_pnl has been applied to a loss-making dict with a positive rate
\* and to a profitable one.
C4_Witness ==
    /\ calls > 0
    /\ compute_pnl(state).EBT < 0
    /\ state.tax_rate > 0
    /\ compute_pnl(before).EBT > 0

\* Some call so far saw the allowance change by more than 0.005.
allowance_moved ==
    \E i \in 1..calls :
        abs(allowance_delta(log[i].before, log[i].new_vals)) > Threshold

\* The calls so far whose net-income change was non-zero and at most 0.005.
small_steps ==
    Cardinality({i \in 1..calls :
        LET d == NetIncome(log[i].new_vals) - NetIncome(log[i].before)
        IN  d # 0 /\ abs(d) <= Threshold})

\* How far retained earnings are from opening retained earnings plus the
\* change of net income since DEFAULTS.
drift ==
    (state.retained_earnings - DEFAULTS.retained_earnings)
    - (NetIncome(state) - NetIncome(DEFAULTS))

\* C5: while no call has moved the allowance by more than 0.005, retained
\* earnings minus 12000 equal the change of net income since DEFAULTS, up
\* to 0.005 for each call whose net-income change was below the threshold
\* (exactly, when there was no such call).
C5_RetainedTracksNetIncome ==
    ~allowance_moved => abs(drift) <= Threshold * small_steps

\* Two calls with the allowance untouched: one flowed a net-income change
\* into retained earnings, one stayed below the threshold and left a drift.
C5_Witness ==
    /\ calls >= 2
    /\ ~allowance_moved
    /\ small_steps = 1
    /\ drift # 0
    /\ state.retained_earnings # DEFAULTS.retained_earnings

\* The latest two calls were made with the same arguments.
repeated ==
    /\ calls >= 2
    /\ log[calls].new_vals = log[calls - 1].new_vals
    /\ log[calls].auto_balance_cash = log[calls - 1].auto_balance_cash

\* C6 as stated: a call repeated with the same arguments leaves all
\* fourteen fields of state as the first call left them.
C6_Idempotent ==
    repeated => state = before

\* C6 amended: a call repeated with the same arguments leaves all fourteen
\* fields of state as the first call left them, provided the first call's
\* new_vals carried an allowance within 0.005 of the allowance held before
\* it.
C6_IdempotentWhenAllowanceKept ==
    (/\ repeated
     /\ abs(allowance_delta(log[calls - 1].before,
                            log[calls - 1].new_vals)) <= Threshold)
        => state = before

\* A repeated call whose first instance changed retained earnings and left
\* the allowance alone.
C6_Witness ==
    /\ repeated
    /\ abs(allowance_delta(log[calls - 1].before,
                           log[calls - 1].new_vals)) <= Threshold
    /\ log[calls - 1].before.retained_earnings # before.retained_earnings

C8_AllowanceBranchFrame ==
    calls > 0 =>
        LET delta_allowance == allowance_delta(before, new_vals)
        IN  IF abs(delta_allowance) > Threshold
            THEN /\ state.opex = new_vals.opex + delta_allowance
                 /\ state.interest_expense = before.interest_expense
                 /\ state.tax_rate = before.tax_rate
            ELSE /\ state.revenue = new_vals.revenue
                 /\ state.cogs = new_vals.cogs
                 /\ state.opex = new_vals.opex
                 /\ state.interest_expense = new_vals.interest_expense
                 /\ state.tax_rate = new_vals.tax_rate
                 /\ state.allowance_for_doubtful_accounts =
                        new_vals.allowance_for_doubtful_accounts

\* An allowance change above the threshold submitted together with a new
\* interest expense, after an earlier call that changed the tax rate.
C8_Witness ==
    /\ calls > 0
    /\ abs(allowance_delta(before, new_vals)) > Threshold
    /\ new_vals.interest_expense # before.interest_expense
    /\ before.tax_rate # DEFAULTS.tax_rate

\* C9: between interactions the previous-snapshot equals the state, field
\* by field.
C9_PrevMirrorsState ==
    prev = state

\* A call whose auto-balancing moved cash after the submitted values were
\* copied; the snapshot holds the adjusted cash.
C9_Witness ==
    /\ calls > 0
    /\ state.cash # new_vals.cash
    /\ prev.cash = state.cash
    /\ state # DEFAULTS

====
